---- MODULE Spec2Model ----
(***************************************************************************)
(* Model of client/src/contexts/AuthContext.js: the authReducer, the       *)
(* AuthProvider's two effects and the asynchronous actions it exposes.     *)
(*                                                                         *)
(* Spec        the full store: actions are called, requests resolve in any *)
(*             order, dispatched events wait in the update queue until the *)
(*             next render applies them, effects run after a commit.       *)
(* SpecReducer the reducer alone: any sequence of events applied one at a  *)
(*             time to the initial state.                                  *)
(*                                                                         *)
(* The API is taken to answer as its contract says: a successful login or  *)
(* register carries a token and a user, a successful /me or /profile       *)
(* carries a user, a failure carries an optional message.                  *)
(***************************************************************************)
EXTENDS Naturals, Sequences, FiniteSets, Bags, TLC

\* ---------------------------------------------------------------- bounds
\* number of calls the consumers make (login, register, logout, ...)
MaxCalls == 2

\* a call or a response that dispatches waits for a render while this many
\* dispatched actions are queued (the effects dispatch regardless, so a render
\* can still apply a batch)
MaxQueue == 1

\* ---------------------------------------------------------------- values
\* JavaScript null / undefined
Null == "null"

Tokens == {"t1", "t2"}

\* a user is its userType; the other fields are opaque
Users == {"admin", "staff"}

\* error.response?.data?.message as the server may send it
ServerMessages == {Null, "", "bad creds"}

Truthy(v) == v # Null /\ v # ""

\* ---------------------------------------------------------------- events
AUTH_ACTIONS ==
  [LOGIN_SUCCESS |-> "LOGIN_SUCCESS", LOGIN_FAIL |-> "LOGIN_FAIL",
   REGISTER_SUCCESS |-> "REGISTER_SUCCESS", REGISTER_FAIL |-> "REGISTER_FAIL",
   LOGOUT |-> "LOGOUT", USER_LOADED |-> "USER_LOADED",
   AUTH_ERROR |-> "AUTH_ERROR", CLEAR_ERRORS |-> "CLEAR_ERRORS",
   SET_LOADING |-> "SET_LOADING"]

\* an action object {type, payload}; the payload is spread over the fields
\* token/user (success), user (USER_LOADED), msg (failure), flag (SET_LOADING).
\* origin is history, not part of the object: the token that was in state when
\* loadUser was called, for the action that reports the outcome of that call
Event(type, token, user, msg, flag) ==
  [type |-> type, token |-> token, user |-> user, msg |-> msg, flag |-> flag,
   origin |-> "none"]

FromRequest(action, r) == [action EXCEPT !.origin = r.sess]

SuccessEvent(type, t, u) == Event(type, t, u, Null, FALSE)

UserLoadedEvent(u) == Event(AUTH_ACTIONS.USER_LOADED, Null, u, Null, FALSE)

FailEvent(type, m) == Event(type, Null, Null, m, FALSE)

LogoutEvent == Event(AUTH_ACTIONS.LOGOUT, Null, Null, Null, FALSE)

ClearErrorsEvent == Event(AUTH_ACTIONS.CLEAR_ERRORS, Null, Null, Null, FALSE)

SetLoadingEvent(b) == Event(AUTH_ACTIONS.SET_LOADING, Null, Null, Null, b)

\* an action whose type is none of AUTH_ACTIONS
UnknownEvent == Event("UNKNOWN", Null, Null, Null, FALSE)

NoEvent == Event("none", Null, Null, Null, FALSE)

\* ---------------------------------------------------------------- reducer
\* initialState with loading: false
initialStateNotLoading(stored) ==
  [user |-> Null, token |-> stored, isAuthenticated |-> FALSE,
   loading |-> FALSE, error |-> Null]

initialState(stored) ==
  [user |-> Null, token |-> stored, isAuthenticated |-> FALSE,
   loading |-> TRUE, error |-> Null]

\* ReduceSuccess without 'error: null'
ReduceSuccessKeepsError(state, action) ==
  [state EXCEPT !.token = action.token, !.user = action.user,
                !.isAuthenticated = TRUE, !.loading = FALSE]

ReduceSuccess(state, action) ==
  [state EXCEPT !.token = action.token, !.user = action.user,
                !.isAuthenticated = TRUE, !.loading = FALSE, !.error = Null]

\* ReduceUserLoaded with the 'error: null' of the success case
ReduceUserLoadedClearsError(state, action) ==
  [state EXCEPT !.user = action.user, !.isAuthenticated = TRUE,
                !.loading = FALSE, !.error = Null]

ReduceUserLoaded(state, action) ==
  [state EXCEPT !.user = action.user, !.isAuthenticated = TRUE,
                !.loading = FALSE]

\* ReduceFail without 'token: null'
ReduceFailKeepsToken(state, action) ==
  [state EXCEPT !.user = Null, !.isAuthenticated = FALSE, !.loading = FALSE,
                !.error = action.msg]

ReduceFail(state, action) ==
  [state EXCEPT !.token = Null, !.user = Null, !.isAuthenticated = FALSE,
                !.loading = FALSE, !.error = action.msg]

\* ReduceLogout without 'isAuthenticated: false'
ReduceLogoutKeepsAuth(state) ==
  [state EXCEPT !.token = Null, !.user = Null, !.loading = FALSE,
                !.error = Null]

\* ReduceLogout without 'error: null'
ReduceLogoutKeepsError(state) ==
  [state EXCEPT !.token = Null, !.user = Null, !.isAuthenticated = FALSE,
                !.loading = FALSE]

ReduceLogout(state) ==
  [state EXCEPT !.token = Null, !.user = Null, !.isAuthenticated = FALSE,
                !.loading = FALSE, !.error = Null]

\* ReduceClearErrors that also ends loading
ReduceClearErrorsEndsLoading(state) ==
  [state EXCEPT !.error = Null, !.loading = FALSE]

ReduceClearErrors(state) == [state EXCEPT !.error = Null]

ReduceSetLoading(state, action) == [state EXCEPT !.loading = action.flag]

IsSuccessType(type) ==
  type \in {AUTH_ACTIONS.LOGIN_SUCCESS, AUTH_ACTIONS.REGISTER_SUCCESS}

IsFailType(type) ==
  type \in {AUTH_ACTIONS.LOGIN_FAIL, AUTH_ACTIONS.REGISTER_FAIL,
            AUTH_ACTIONS.AUTH_ERROR}

\* authReducer whose default case returns the logged-out state
authReducerDefaultResets(state, action) ==
  CASE IsSuccessType(action.type) -> ReduceSuccess(state, action)
    [] action.type = AUTH_ACTIONS.USER_LOADED -> ReduceUserLoaded(state, action)
    [] IsFailType(action.type) -> ReduceFail(state, action)
    [] action.type = AUTH_ACTIONS.LOGOUT -> ReduceLogout(state)
    [] action.type = AUTH_ACTIONS.CLEAR_ERRORS -> ReduceClearErrors(state)
    [] action.type = AUTH_ACTIONS.SET_LOADING -> ReduceSetLoading(state, action)
    [] OTHER -> ReduceLogout(state)

\* the state the reducer returns
authReducer(state, action) ==
  CASE IsSuccessType(action.type) -> ReduceSuccess(state, action)
    [] action.type = AUTH_ACTIONS.USER_LOADED -> ReduceUserLoaded(state, action)
    [] IsFailType(action.type) -> ReduceFail(state, action)
    [] action.type = AUTH_ACTIONS.LOGOUT -> ReduceLogout(state)
    [] action.type = AUTH_ACTIONS.CLEAR_ERRORS -> ReduceClearErrors(state)
    [] action.type = AUTH_ACTIONS.SET_LOADING -> ReduceSetLoading(state, action)
    [] OTHER -> state

\* StoreOnSuccess without the setItem
StoreOnSuccessSkipped(slot, action) == slot

StoreOnSuccess(slot, action) == action.token

RemoveOnFail(slot) == Null

\* RemoveOnLogout without the removeItem
RemoveOnLogoutSkipped(slot) == slot

RemoveOnLogout(slot) == Null

\* the 'token' slot of localStorage after the reducer has run
reducerStorage(slot, action) ==
  CASE IsSuccessType(action.type) -> StoreOnSuccess(slot, action)
    [] IsFailType(action.type) -> RemoveOnFail(slot)
    [] action.type = AUTH_ACTIONS.LOGOUT -> RemoveOnLogout(slot)
    [] OTHER -> slot

\* a render applies the queued actions in dispatch order
RECURSIVE ReduceAll(_, _)
ReduceAll(state, q) ==
  IF q = <<>> THEN state ELSE ReduceAll(authReducer(state, Head(q)), Tail(q))

RECURSIVE StorageAll(_, _)
StorageAll(slot, q) ==
  IF q = <<>> THEN slot ELSE StorageAll(reducerStorage(slot, Head(q)), Tail(q))

\* ---------------------------------------------------------------- helpers
\* ExtractMessage without the default
ExtractMessageNoDefault(m, dflt) == m

\* error.response?.data?.message || dflt
ExtractMessage(m, dflt) == IF Truthy(m) THEN m ELSE dflt

Bearer(t) == "Bearer " \o t

\* a request in flight and the Authorization header it left with; sess is
\* history, kept for loadUser: the token that was in state when it was called
Request(kind, hdr, sess) == [kind |-> kind, hdr |-> hdr, sess |-> sess]

\* what a call that has just finished did: the outcome of its request (ok, and
\* raw, the message of the error response), the actions it dispatched on that
\* outcome, and the value it returned (threw: it raised instead of returning)
CallResult(kind, ok, raw, dispatched, success, user, message) ==
  [kind |-> kind, ok |-> ok, raw |-> raw, dispatched |-> dispatched,
   threw |-> FALSE, success |-> success, user |-> user, message |-> message]

NoCall == CallResult("none", FALSE, Null, <<>>, FALSE, Null, Null)

\* ---------------------------------------------------------------- state
VARIABLES
  state,          \* the committed reducer state
  storage,        \* localStorage['token']
  header,         \* axios.defaults.headers.common['Authorization']
  queue,          \* actions dispatched and not yet reduced
  effectsPending, \* the two effects on [state.token] are scheduled
  inflight,       \* requests issued and not yet settled
  calls,          \* calls made by the consumers so far
  lastCall,       \* the call that returned a result in the last step, if any
  mountToken,     \* the token localStorage held when the provider mounted
  mountEffect,    \* what the bootstrap effect did on mount
  applied,        \* some action has been applied by the reducer
  prev,           \* SpecReducer: the state before the last event
  prevStorage,    \* SpecReducer: the slot before the last event
  lastEvent,      \* SpecReducer: the last event
  query,          \* SpecQuery: the last canAccess call and its answer
  race,           \* history: a logout called while a login is in flight
  authDone        \* history: a loadUser, login or register has settled

vars == <<state, storage, header, queue, effectsPending, inflight, calls,
          lastCall, mountToken, mountEffect, applied, prev, prevStorage,
          lastEvent, query, race, authDone>>

histVars == <<race, authDone>>

storeVars == <<header, queue, effectsPending, inflight, calls, lastCall,
               mountToken, mountEffect, applied, histVars>>

reducerVars == <<prev, prevStorage, lastEvent>>

\* what the store leaves alone: the variables of the reducer's and the queries'
\* own specifications
otherVars == <<reducerVars, query>>

\* the stages of the race of a login with a logout: "logoutCalled" while the
\* login was in flight, "succeeded" when that login's request has, "applied"
\* right after the render whose last action is its LOGIN_SUCCESS; "void" when
\* a later login makes it unknown which one succeeded
Race(stage, token, user) == [stage |-> stage, token |-> token, user |-> user]

NoRace == Race("none", Null, Null)

\* no query made yet
NoQuery == [asked |-> FALSE, allowedRoles |-> {}, answer |-> "none"]

Init ==
  /\ storage \in Tokens \cup {Null}
  /\ state = initialState(storage)
  /\ header = Null
  /\ queue = <<>>
  /\ effectsPending = TRUE
  /\ inflight = EmptyBag
  /\ calls = 0
  /\ lastCall = NoCall
  /\ mountToken = storage
  /\ mountEffect = "pending"
  /\ applied = FALSE
  /\ prev = state
  /\ prevStorage = storage
  /\ lastEvent = NoEvent
  /\ query = NoQuery
  /\ race = NoRace
  /\ authDone = FALSE

\* ---------------------------------------------------------------- queries
\* state.user && state.user.userType === role
hasRole(s, role) == s.user # Null /\ s.user = role

\* canAccess that looks at the user only, as hasRole does
canAccessNoAuthCheck(s, allowedRoles) ==
  IF s.user = Null THEN "false"
  ELSE IF s.user \in allowedRoles THEN "true" ELSE "false"

\* "TypeError" is the read of userType on a null user
canAccess(s, allowedRoles) ==
  IF ~s.isAuthenticated THEN "false"
  ELSE IF s.user = Null THEN "TypeError"
  ELSE IF s.user \in allowedRoles THEN "true" ELSE "false"

\* ---------------------------------------------------------------- store
dispatch(action) == queue' = Append(queue, action)

QueueHasRoom == Len(queue) < MaxQueue

Issue(kind) ==
  LET sess == IF kind = "loadUser" THEN state.token ELSE "none"
  IN  inflight' = inflight (+) SetToBag({Request(kind, header, sess)})

Settle(r) == inflight' = inflight (-) SetToBag({r})

Pending(kind) == {r \in BagToSet(inflight) : r.kind = kind}

CanCall == calls < MaxCalls

\* -------- history of the race of a login with a logout
RaceAfterLogout ==
  IF race.stage = "none" /\ Pending("login") # {}
  THEN Race("logoutCalled", Null, Null) ELSE race

RaceAfterCall(kind) ==
  IF kind = "login" /\ race.stage = "logoutCalled"
  THEN Race("void", Null, Null) ELSE race

RaceAfterSuccess(kind, t, u) ==
  IF kind = "login" /\ race.stage = "logoutCalled"
  THEN Race("succeeded", t, u) ELSE race

RaceAfterCommit ==
  LET last == queue[Len(queue)] IN
  CASE race.stage = "succeeded" ->
         IF /\ last.type = AUTH_ACTIONS.LOGIN_SUCCESS
            /\ last.token = race.token
            /\ last.user = race.user
         THEN Race("applied", race.token, race.user)
         ELSE Race("void", Null, Null)
    [] race.stage = "applied" -> Race("void", Null, Null)
    [] OTHER -> race

\* Commit whose effects have no dependency array
CommitAlwaysRunsEffects ==
  /\ queue # <<>>
  /\ ~effectsPending
  /\ state' = ReduceAll(state, queue)
  /\ storage' = StorageAll(storage, queue)
  /\ queue' = <<>>
  /\ effectsPending' = TRUE
  /\ applied' = TRUE
  /\ lastCall' = NoCall
  /\ UNCHANGED <<header, inflight, calls, mountToken, mountEffect>>
  /\ race' = RaceAfterCommit
  /\ UNCHANGED authDone
  /\ UNCHANGED otherVars

\* a render: the reducer runs over the queued actions and the result commits;
\* React flushes the effects of the previous commit before it renders again
Commit ==
  /\ queue # <<>>
  /\ ~effectsPending
  /\ state' = ReduceAll(state, queue)
  /\ storage' = StorageAll(storage, queue)
  /\ queue' = <<>>
  /\ effectsPending' = (state'.token # state.token)
  /\ applied' = TRUE
  /\ lastCall' = NoCall
  /\ UNCHANGED <<header, inflight, calls, mountToken, mountEffect>>
  /\ race' = RaceAfterCommit
  /\ UNCHANGED authDone
  /\ UNCHANGED otherVars

\* useEffect(..., [state.token]): the Authorization default
AxiosDefaultsEffect ==
  header' = IF Truthy(state.token) THEN Bearer(state.token) ELSE Null

\* BootstrapEffect without the test of state.token
BootstrapEffectAlwaysLoads ==
  /\ inflight' = inflight (+) SetToBag({Request("loadUser", header', state.token)})
  /\ UNCHANGED queue
  /\ mountEffect' = IF mountEffect = "pending" THEN "loadUser" ELSE mountEffect

\* BootstrapEffect that does nothing when there is no token
BootstrapEffectSilent ==
  IF Truthy(state.token)
  THEN /\ inflight' = inflight (+) SetToBag({Request("loadUser", header', state.token)})
       /\ UNCHANGED queue
       /\ mountEffect' = IF mountEffect = "pending" THEN "loadUser" ELSE mountEffect
  ELSE /\ UNCHANGED queue
       /\ UNCHANGED inflight
       /\ mountEffect' = IF mountEffect = "pending" THEN "setLoading" ELSE mountEffect

\* useEffect(..., [state.token, loadUser]): loadUser() or SET_LOADING(false);
\* loadUser runs up to its await, so the request leaves with the header the
\* first effect has just set
BootstrapEffect ==
  IF Truthy(state.token)
  THEN /\ inflight' = inflight (+) SetToBag({Request("loadUser", header', state.token)})
       /\ UNCHANGED queue
       /\ mountEffect' = IF mountEffect = "pending" THEN "loadUser" ELSE mountEffect
  ELSE /\ dispatch(SetLoadingEvent(FALSE))
       /\ UNCHANGED inflight
       /\ mountEffect' = IF mountEffect = "pending" THEN "setLoading" ELSE mountEffect

\* the effects of one commit run together, in declaration order
RunEffects ==
  /\ effectsPending
  /\ AxiosDefaultsEffect
  /\ BootstrapEffect
  /\ effectsPending' = FALSE
  /\ lastCall' = NoCall
  /\ UNCHANGED <<state, storage, calls, mountToken, applied>>
  /\ UNCHANGED histVars
  /\ UNCHANGED otherVars

\* -------- loadUser (also exposed to the consumers through the context)
loadUser ==
  /\ CanCall
  /\ calls' = calls + 1
  /\ Issue("loadUser")
  /\ lastCall' = NoCall
  /\ UNCHANGED <<state, storage, header, queue, effectsPending, mountToken,
                 mountEffect, applied>>
  /\ UNCHANGED histVars
  /\ UNCHANGED otherVars

loadUserResolved ==
  \E r \in Pending("loadUser"), u \in Users :
    /\ QueueHasRoom
    /\ Settle(r)
    /\ dispatch(FromRequest(UserLoadedEvent(u), r))
    /\ lastCall' = NoCall
    /\ UNCHANGED <<state, storage, header, effectsPending, calls, mountToken,
                   mountEffect, applied>>
    /\ authDone' = TRUE
    /\ UNCHANGED race
    /\ UNCHANGED otherVars

loadUserRejected ==
  \E r \in Pending("loadUser"), m \in ServerMessages :
    LET ev == FromRequest(FailEvent(AUTH_ACTIONS.AUTH_ERROR,
                                    ExtractMessage(m, "Authentication failed")),
                          r) IN
    /\ QueueHasRoom
    /\ Settle(r)
    /\ dispatch(ev)
    /\ lastCall' = NoCall
    /\ UNCHANGED <<state, storage, header, effectsPending, calls, mountToken,
                   mountEffect, applied>>
    /\ authDone' = TRUE
    /\ UNCHANGED race
    /\ UNCHANGED otherVars

\* -------- login / register: SET_LOADING(true), then the POST
AuthCall(kind) ==
  /\ CanCall
  /\ QueueHasRoom
  /\ calls' = calls + 1
  /\ dispatch(SetLoadingEvent(TRUE))
  /\ Issue(kind)
  /\ lastCall' = NoCall
  /\ UNCHANGED <<state, storage, header, effectsPending, mountToken,
                 mountEffect, applied>>
  /\ race' = RaceAfterCall(kind)
  /\ UNCHANGED authDone
  /\ UNCHANGED otherVars

AuthResolved(kind, successType) ==
  \E r \in Pending(kind), t \in Tokens, u \in Users :
    LET ev == SuccessEvent(successType, t, u) IN
    /\ QueueHasRoom
    /\ Settle(r)
    /\ dispatch(ev)
    /\ lastCall' = CallResult(kind, TRUE, Null, <<ev>>, TRUE, u, Null)
    /\ UNCHANGED <<state, storage, header, effectsPending, calls, mountToken,
                   mountEffect, applied>>
    /\ race' = RaceAfterSuccess(kind, t, u)
    /\ authDone' = TRUE
    /\ UNCHANGED otherVars

AuthRejected(kind, failType, dflt) ==
  \E r \in Pending(kind), m \in ServerMessages :
    LET message == ExtractMessage(m, dflt)
        ev == FailEvent(failType, message) IN
    /\ QueueHasRoom
    /\ Settle(r)
    /\ dispatch(ev)
    /\ lastCall' = CallResult(kind, FALSE, m, <<ev>>, FALSE, Null, message)
    /\ UNCHANGED <<state, storage, header, effectsPending, calls, mountToken,
                   mountEffect, applied>>
    /\ authDone' = TRUE
    /\ UNCHANGED race
    /\ UNCHANGED otherVars

login == AuthCall("login")

loginResolved == AuthResolved("login", AUTH_ACTIONS.LOGIN_SUCCESS)

loginRejected == AuthRejected("login", AUTH_ACTIONS.LOGIN_FAIL, "Login failed")

register == AuthCall("register")

registerResolved == AuthResolved("register", AUTH_ACTIONS.REGISTER_SUCCESS)

registerRejected ==
  AuthRejected("register", AUTH_ACTIONS.REGISTER_FAIL, "Registration failed")

\* -------- logout, clearErrors: one synchronous dispatch
\* logout that also abandons the requests in flight
logoutAborts ==
  /\ CanCall
  /\ QueueHasRoom
  /\ calls' = calls + 1
  /\ dispatch(LogoutEvent)
  /\ inflight' = EmptyBag
  /\ lastCall' = NoCall
  /\ race' = RaceAfterLogout
  /\ UNCHANGED <<state, storage, header, effectsPending, mountToken,
                 mountEffect, applied, authDone>>
  /\ UNCHANGED otherVars

logout ==
  /\ CanCall
  /\ QueueHasRoom
  /\ calls' = calls + 1
  /\ dispatch(LogoutEvent)
  /\ lastCall' = NoCall
  /\ UNCHANGED <<state, storage, header, effectsPending, inflight, mountToken,
                 mountEffect, applied>>
  /\ race' = RaceAfterLogout
  /\ UNCHANGED authDone
  /\ UNCHANGED otherVars

clearErrors ==
  /\ CanCall
  /\ QueueHasRoom
  /\ calls' = calls + 1
  /\ dispatch(ClearErrorsEvent)
  /\ lastCall' = NoCall
  /\ UNCHANGED <<state, storage, header, effectsPending, inflight, mountToken,
                 mountEffect, applied>>
  /\ UNCHANGED histVars
  /\ UNCHANGED otherVars

\* -------- updateProfile / changePassword: a PUT, no SET_LOADING
PlainCall(kind) ==
  /\ CanCall
  /\ calls' = calls + 1
  /\ Issue(kind)
  /\ lastCall' = NoCall
  /\ UNCHANGED <<state, storage, header, queue, effectsPending, mountToken,
                 mountEffect, applied>>
  /\ UNCHANGED histVars
  /\ UNCHANGED otherVars

\* PlainRejected with the catch block of loadUser
PlainRejectedDispatches(kind, dflt) ==
  \E r \in Pending(kind), m \in ServerMessages :
    LET message == ExtractMessage(m, dflt)
        ev == FailEvent(AUTH_ACTIONS.AUTH_ERROR, message) IN
    /\ QueueHasRoom
    /\ Settle(r)
    /\ dispatch(ev)
    /\ lastCall' = CallResult(kind, FALSE, m, <<ev>>, FALSE, Null, message)
    /\ UNCHANGED <<state, storage, header, effectsPending, calls, mountToken,
                   mountEffect, applied>>
    /\ UNCHANGED histVars
    /\ UNCHANGED otherVars

\* the catch block shared by updateProfile and changePassword
PlainRejected(kind, dflt) ==
  \E r \in Pending(kind), m \in ServerMessages :
    LET message == ExtractMessage(m, dflt) IN
    /\ Settle(r)
    /\ lastCall' = CallResult(kind, FALSE, m, <<>>, FALSE, Null, message)
    /\ UNCHANGED <<state, storage, header, queue, effectsPending, calls,
                   mountToken, mountEffect, applied>>
    /\ UNCHANGED histVars
    /\ UNCHANGED otherVars

updateProfile == PlainCall("updateProfile")

updateProfileResolved ==
  \E r \in Pending("updateProfile"), u \in Users :
    /\ QueueHasRoom
    /\ Settle(r)
    /\ dispatch(UserLoadedEvent(u))
    /\ lastCall' = CallResult("updateProfile", TRUE, Null,
                              <<UserLoadedEvent(u)>>, TRUE, Null, Null)
    /\ UNCHANGED <<state, storage, header, effectsPending, calls, mountToken,
                   mountEffect, applied>>
    /\ UNCHANGED histVars
    /\ UNCHANGED otherVars

updateProfileRejected == PlainRejected("updateProfile", "Profile update failed")

changePassword == PlainCall("changePassword")

changePasswordResolved ==
  \E r \in Pending("changePassword") :
    /\ Settle(r)
    /\ lastCall' = CallResult("changePassword", TRUE, Null, <<>>, TRUE, Null,
                              Null)
    /\ UNCHANGED <<state, storage, header, queue, effectsPending, calls,
                   mountToken, mountEffect, applied>>
    /\ UNCHANGED histVars
    /\ UNCHANGED otherVars

changePasswordRejected ==
  PlainRejected("changePassword", "Password change failed")

Next ==
  \/ Commit
  \/ RunEffects
  \/ loadUser
  \/ loadUserResolved
  \/ loadUserRejected
  \/ login
  \/ loginResolved
  \/ loginRejected
  \/ register
  \/ registerResolved
  \/ registerRejected
  \/ logout
  \/ clearErrors
  \/ updateProfile
  \/ updateProfileResolved
  \/ updateProfileRejected
  \/ changePassword
  \/ changePasswordResolved
  \/ changePasswordRejected

Spec == Init /\ [][Next]_vars

\* React renders after a dispatch and runs the effects of a commit; every
\* request is answered
Fairness ==
  /\ WF_vars(Commit)
  /\ WF_vars(RunEffects)
  /\ WF_vars(loadUserResolved \/ loadUserRejected)
  /\ WF_vars(loginResolved \/ loginRejected)
  /\ WF_vars(registerResolved \/ registerRejected)
  /\ WF_vars(updateProfileResolved \/ updateProfileRejected)
  /\ WF_vars(changePasswordResolved \/ changePasswordRejected)

SpecLive == Spec /\ Fairness

\* ---------------------------------------------------------------- reducer alone
\* one event applied to the current state, as a test of the reducer would
Apply(action) ==
  /\ prev' = state
  /\ prevStorage' = storage
  /\ lastEvent' = action
  /\ state' = authReducer(state, action)
  /\ storage' = reducerStorage(storage, action)
  /\ UNCHANGED <<storeVars, query>>

ApplySuccess ==
  \E type \in {AUTH_ACTIONS.LOGIN_SUCCESS, AUTH_ACTIONS.REGISTER_SUCCESS},
     t \in Tokens, u \in Users : Apply(SuccessEvent(type, t, u))

ApplyUserLoaded == \E u \in Users : Apply(UserLoadedEvent(u))

ApplyFail ==
  \E type \in {AUTH_ACTIONS.LOGIN_FAIL, AUTH_ACTIONS.REGISTER_FAIL,
               AUTH_ACTIONS.AUTH_ERROR},
     m \in {"Login failed", "bad creds"} : Apply(FailEvent(type, m))

ApplyLogout == Apply(LogoutEvent)

ApplyClearErrors == Apply(ClearErrorsEvent)

ApplySetLoading == \E b \in BOOLEAN : Apply(SetLoadingEvent(b))

ApplyUnknown == Apply(UnknownEvent)

NextReducer ==
  \/ ApplySuccess
  \/ ApplyUserLoaded
  \/ ApplyFail
  \/ ApplyLogout
  \/ ApplyClearErrors
  \/ ApplySetLoading
  \/ ApplyUnknown

SpecReducer == Init /\ [][NextReducer]_vars

\* ---------------------------------------------------------------- queries alone
\* the roles a route may ask for
RoleNames == {"admin", "staff", "guest"}

\* every value the five fields can hold
AuthStates ==
  [user : Users \cup {Null}, token : Tokens \cup {Null},
   isAuthenticated : BOOLEAN, loading : BOOLEAN,
   error : {Null, "bad creds"}]

InitQuery ==
  /\ state \in AuthStates
  /\ storage = state.token
  /\ header = Null
  /\ queue = <<>>
  /\ effectsPending = TRUE
  /\ inflight = EmptyBag
  /\ calls = 0
  /\ lastCall = NoCall
  /\ mountToken = storage
  /\ mountEffect = "pending"
  /\ applied = FALSE
  /\ prev = state
  /\ prevStorage = storage
  /\ lastEvent = NoEvent
  /\ query = NoQuery
  /\ race = NoRace
  /\ authDone = FALSE

canAccessCall ==
  \E allowedRoles \in SUBSET RoleNames :
    /\ query' = [asked |-> TRUE, allowedRoles |-> allowedRoles,
                 answer |-> canAccess(state, allowedRoles)]
    /\ UNCHANGED <<state, storage, storeVars, reducerVars>>

NextQuery == canAccessCall

SpecQuery == InitQuery /\ [][NextQuery]_vars

TypeOK ==
  /\ state.token \in Tokens \cup {Null}
  /\ state.user \in Users \cup {Null}
  /\ state.isAuthenticated \in BOOLEAN
  /\ state.loading \in BOOLEAN
  /\ calls \in 0..MaxCalls

\* ---------------------------------------------------------------- claims
LoggedOut ==
  [user |-> Null, token |-> Null, isAuthenticated |-> FALSE,
   loading |-> FALSE, error |-> Null]

\* C1: in every state the store reaches, isAuthenticated is true if and only
\* if both user and token are non-absent.
C1_AuthIffUserAndToken ==
  state.isAuthenticated <=> (state.user # Null /\ state.token # Null)

\* C2: in every reachable state of the full store isAuthenticated implies a
\* non-absent user, so canAccess never reads userType of an absent user.
C2_AuthenticatedHasUser ==
  /\ state.isAuthenticated => state.user # Null
  /\ \A allowedRoles \in SUBSET Users :
       canAccess(state, allowedRoles) # "TypeError"

\* authenticated after requests have raced: a user without a token
C2_Witness ==
  /\ state.isAuthenticated
  /\ state.user # Null
  /\ state.token = Null
  /\ applied

\* C3: LOGIN_FAIL, REGISTER_FAIL or AUTH_ERROR with message m yields in one
\* step token, user absent, isAuthenticated false, loading false, error = m,
\* and an empty storage slot.
C3_FailClearsAll ==
  IsFailType(lastEvent.type) =>
    /\ state = [user |-> Null, token |-> Null, isAuthenticated |-> FALSE,
                loading |-> FALSE, error |-> lastEvent.msg]
    /\ storage = Null

C3_Witness ==
  /\ IsFailType(lastEvent.type)
  /\ prev.isAuthenticated
  /\ prev.token # Null
  /\ prevStorage # Null
  /\ state.error = "bad creds"

\* C4: LOGIN_SUCCESS or REGISTER_SUCCESS with payload {token: t, user: u}
\* yields token = t, user = u, isAuthenticated true, loading false, error
\* absent, and storage holds t.
C4_SuccessInstalls ==
  IsSuccessType(lastEvent.type) =>
    /\ state = [user |-> lastEvent.user, token |-> lastEvent.token,
                isAuthenticated |-> TRUE, loading |-> FALSE, error |-> Null]
    /\ storage = lastEvent.token

C4_Witness ==
  /\ IsSuccessType(lastEvent.type)
  /\ prev.error # Null
  /\ prevStorage = Null
  /\ state.token = "t1"
  /\ state.user = "admin"

\* C5: in every reachable state the storage slot and state.token agree.
C5_StorageMirrorsToken == storage = state.token

C5_Witness ==
  /\ applied
  /\ state.token # Null
  /\ state.token # mountToken
  /\ storage = state.token

\* C6: LOGOUT yields the logged-out state and an empty slot from any state,
\* and applying it twice gives what applying it once gives.
C6_LogoutIdempotent ==
  LET once == authReducer(state, LogoutEvent)
      slotOnce == reducerStorage(storage, LogoutEvent) IN
  /\ lastEvent.type = AUTH_ACTIONS.LOGOUT => state = LoggedOut /\ storage = Null
  /\ once = LoggedOut
  /\ slotOnce = Null
  /\ authReducer(once, LogoutEvent) = once
  /\ reducerStorage(slotOnce, LogoutEvent) = slotOnce

C6_Witness ==
  /\ lastEvent.type = AUTH_ACTIONS.LOGOUT
  /\ prev.isAuthenticated
  /\ prev.token # Null
  /\ prev.loading
  /\ state = LoggedOut

\* C7: CLEAR_ERRORS changes only error, SET_LOADING(b) only loading; the
\* other fields and the storage slot stay as they were.
C7_FrameOfFlags ==
  /\ lastEvent.type = AUTH_ACTIONS.CLEAR_ERRORS =>
       state = [prev EXCEPT !.error = Null] /\ storage = prevStorage
  /\ lastEvent.type = AUTH_ACTIONS.SET_LOADING =>
       state = [prev EXCEPT !.loading = lastEvent.flag] /\ storage = prevStorage

C7_Witness ==
  /\ lastEvent.type = AUTH_ACTIONS.CLEAR_ERRORS
  /\ prev.error # Null
  /\ prev.loading
  /\ prev.isAuthenticated
  /\ state.error = Null

AuthKinds == {"login", "register"}

SuccessTypeOf(kind) ==
  IF kind = "login" THEN AUTH_ACTIONS.LOGIN_SUCCESS
  ELSE AUTH_ACTIONS.REGISTER_SUCCESS

FailTypeOf(kind) ==
  IF kind = "login" THEN AUTH_ACTIONS.LOGIN_FAIL ELSE AUTH_ACTIONS.REGISTER_FAIL

DefaultMessageOf(kind) ==
  IF kind = "login" THEN "Login failed" ELSE "Registration failed"

\* C8: a login or register call returns a value and never raises; on success
\* it has dispatched exactly one LOGIN_SUCCESS (REGISTER_SUCCESS) and returns
\* {success: true, user}; on failure exactly one LOGIN_FAIL (REGISTER_FAIL)
\* with the server's message, or the default when there is none, and returns
\* {success: false, message}.
C8_AuthCallReturns ==
  lastCall.kind \in AuthKinds =>
    /\ ~lastCall.threw
    /\ Len(lastCall.dispatched) = 1
    /\ queue # <<>>
    /\ queue[Len(queue)] = lastCall.dispatched[1]
    /\ lastCall.ok =>
         /\ lastCall.dispatched[1].type = SuccessTypeOf(lastCall.kind)
         /\ lastCall.dispatched[1].token \in Tokens
         /\ lastCall.success
         /\ lastCall.user = lastCall.dispatched[1].user
         /\ lastCall.user \in Users
    /\ ~lastCall.ok =>
         /\ lastCall.dispatched[1].type = FailTypeOf(lastCall.kind)
         /\ lastCall.dispatched[1].msg = lastCall.message
         /\ ~lastCall.success
         /\ lastCall.message =
              IF lastCall.raw \in {Null, ""}
              THEN DefaultMessageOf(lastCall.kind) ELSE lastCall.raw

\* a register call made while logged in fails without a message from the
\* server, after its SET_LOADING(true) was rendered
C8_Witness ==
  /\ lastCall.kind = "register"
  /\ ~lastCall.ok
  /\ lastCall.raw = ""
  /\ lastCall.message = "Registration failed"
  /\ state.isAuthenticated
  /\ state.loading

\* C9: a failed updateProfile and a changePassword with either outcome
\* dispatch nothing: the state, the storage slot, the update queue and the
\* Authorization default are the same after the step as before it.
C9_NoDispatch ==
  [][(\/ updateProfile
      \/ updateProfileRejected
      \/ changePassword
      \/ changePasswordResolved
      \/ changePasswordRejected)
     => UNCHANGED <<state, storage, queue, header, effectsPending>>]_vars

C9_Witness ==
  /\ lastCall.kind = "updateProfile"
  /\ ~lastCall.ok
  /\ state.isAuthenticated
  /\ state.token # Null
  /\ queue = <<>>

\* C10: mounted with a stored token, the provider issues loadUser before the
\* reducer applies any action; mounted without one, its bootstrap effect
\* dispatches SET_LOADING(false) and issues no loadUser.
C10_MountBootstrap ==
  /\ applied => mountEffect # "pending"
  /\ mountEffect = "pending" => state = initialState(mountToken)
  /\ mountEffect = "loadUser" => mountToken # Null
  /\ mountEffect = "setLoading" => mountToken = Null

C10_Witness ==
  /\ mountEffect = "loadUser"
  /\ mountToken = "t2"
  /\ applied
  /\ state.isAuthenticated

\* the Authorization default that goes with a token
HeaderFor(t) == IF Truthy(t) THEN Bearer(t) ELSE Null

\* C11: every request is issued with an Authorization header that matches
\* state.token at the moment of issue ('Bearer <token>', or none when the
\* token is absent).
C11_HeaderMatchesToken ==
  [][\A r \in BagToSet(inflight') :
       CopiesIn(r, inflight') > CopiesIn(r, inflight)
         => r.hdr = HeaderFor(state.token)]_vars

KnownTypes ==
  {AUTH_ACTIONS.LOGIN_SUCCESS, AUTH_ACTIONS.LOGIN_FAIL,
   AUTH_ACTIONS.REGISTER_SUCCESS, AUTH_ACTIONS.REGISTER_FAIL,
   AUTH_ACTIONS.LOGOUT, AUTH_ACTIONS.USER_LOADED, AUTH_ACTIONS.AUTH_ERROR,
   AUTH_ACTIONS.CLEAR_ERRORS, AUTH_ACTIONS.SET_LOADING}

\* C15 as claimed: after LOGIN_SUCCESS, REGISTER_SUCCESS or USER_LOADED is
\* applied, error is absent.
C15_ErrorClearedOnAnySuccess ==
  (IsSuccessType(lastEvent.type) \/ lastEvent.type = AUTH_ACTIONS.USER_LOADED)
    => state.error = Null

\* C15 as amended: after LOGIN_SUCCESS or REGISTER_SUCCESS error is absent;
\* USER_LOADED leaves error as it was; a set error goes away only on
\* CLEAR_ERRORS, LOGOUT, LOGIN_SUCCESS or REGISTER_SUCCESS.
C15_ErrorClearedOnLoginOrRegister ==
  /\ IsSuccessType(lastEvent.type) => state.error = Null
  /\ lastEvent.type = AUTH_ACTIONS.USER_LOADED => state.error = prev.error
  /\ (lastEvent # NoEvent /\ prev.error # Null /\ state.error = Null) =>
       \/ IsSuccessType(lastEvent.type)
       \/ lastEvent.type \in {AUTH_ACTIONS.CLEAR_ERRORS, AUTH_ACTIONS.LOGOUT}

\* a login succeeds in a state that shows an error and a loaded user
C15_Witness ==
  /\ IsSuccessType(lastEvent.type)
  /\ prev.error # Null
  /\ prev.isAuthenticated
  /\ state.error = Null

\* C16: USER_LOADED with user u sets user = u, isAuthenticated = true and
\* loading = false and leaves token, error and the storage slot unchanged.
C16_UserLoadedFrame ==
  lastEvent.type = AUTH_ACTIONS.USER_LOADED =>
    /\ state = [prev EXCEPT !.user = lastEvent.user, !.isAuthenticated = TRUE,
                            !.loading = FALSE]
    /\ state.token = prev.token
    /\ state.error = prev.error
    /\ storage = prevStorage

C16_Witness ==
  /\ lastEvent.type = AUTH_ACTIONS.USER_LOADED
  /\ prev.error # Null
  /\ prev.loading
  /\ ~prev.isAuthenticated
  /\ state.user = "staff"
  /\ state.error = prev.error

\* C17: an event whose type is none of the nine known types leaves the state
\* and the storage slot unchanged, and the reducer returns a state for it.
C17_UnknownEventIgnored ==
  /\ (lastEvent # NoEvent /\ lastEvent.type \notin KnownTypes) =>
       state = prev /\ storage = prevStorage
  /\ authReducer(state, UnknownEvent) = state
  /\ reducerStorage(storage, UnknownEvent) = storage

C17_Witness ==
  /\ lastEvent = UnknownEvent
  /\ prev.isAuthenticated
  /\ prev.token # Null
  /\ state = prev
  /\ storage = prevStorage

\* C12: canAccess(allowedRoles) is false whenever isAuthenticated is false,
\* whatever user holds; with isAuthenticated true and a user present it is
\* true exactly when the user's userType is among allowedRoles.
C12_CanAccess ==
  query.asked =>
    /\ ~state.isAuthenticated => query.answer = "false"
    /\ (state.isAuthenticated /\ state.user # Null) =>
         /\ query.answer \in {"true", "false"}
         /\ query.answer = "true" <=> state.user \in query.allowedRoles

\* asked of a state that is not authenticated but holds a user of an allowed
\* role
C12_Witness ==
  /\ query.asked
  /\ ~state.isAuthenticated
  /\ state.user = "admin"
  /\ query.allowedRoles = {"admin", "staff"}
  /\ query.answer = "false"

\* C13: nothing is cancelled and events are applied in the order their
\* requests resolve: logout leaves the requests in flight, and when a login
\* that was in flight at a logout succeeds, its LOGIN_SUCCESS is applied after
\* the LOGOUT and leaves the store authenticated, with the new token in state
\* and in the storage slot.
C13_LateLoginWins ==
  /\ [][logout => (inflight' = inflight /\ queue' = Append(queue, LogoutEvent))]_vars
  /\ [](race.stage = "applied" =>
          /\ state.isAuthenticated
          /\ state.token = race.token
          /\ state.user = race.user
          /\ storage = race.token)

\* logged out of the session of t1, and in again by the login that was in
\* flight
C13_Witness ==
  /\ race.stage = "applied"
  /\ mountToken = "t1"
  /\ state.isAuthenticated
  /\ state.token = "t2"
  /\ storage = "t2"

AuthInFlight ==
  \E r \in BagToSet(inflight) : r.kind \in {"loadUser", "login", "register"}

\* C14 as claimed: loading is true whenever a loadUser, login or register
\* request is in flight, and whenever none has completed since mount.
C14_LoadingWhileUndetermined ==
  /\ AuthInFlight => state.loading
  /\ ~authDone => state.loading

\* C14 as amended: loading is true from mount until the reducer applies its
\* first action, whatever is in flight.
C14_LoadingUntilFirstEvent == ~applied => state.loading

\* the loadUser of the mount is in flight and has not been answered
C14_Witness ==
  /\ ~applied
  /\ mountEffect = "loadUser"
  /\ AuthInFlight
  /\ ~authDone
  /\ state.loading

\* C20: the outcome of a loadUser request affects only the session it was
\* issued for: an event that reports a loadUser called under token t0, applied
\* when state holds another present token t1 (a login or register has
\* succeeded in between), changes neither token nor user nor the storage slot.
C20_LoadUserKeepsToItsSession ==
  [][Commit =>
       \A i \in 1..Len(queue) :
         LET e       == queue[i]
             before  == ReduceAll(state, SubSeq(queue, 1, i - 1))
             slot    == StorageAll(storage, SubSeq(queue, 1, i - 1))
         IN  (/\ e.origin \in Tokens
              /\ Truthy(before.token)
              /\ before.token # e.origin)
               => /\ authReducer(before, e).token = before.token
                  /\ authReducer(before, e).user = before.user
                  /\ reducerStorage(slot, e) = slot]_vars

\* nothing in flight, no effect pending, no dispatched action awaiting its
\* render
Quiescent == inflight = EmptyBag /\ ~effectsPending /\ queue = <<>>

\* C18 as claimed: loading eventually becomes false after mount, and is
\* false once no request is in flight and no effect is pending.
C18_LoadingFalseWhenIdle ==
  /\ <>(~state.loading)
  /\ []((inflight = EmptyBag /\ ~effectsPending) => ~state.loading)

\* C18 as amended: whenever loading is true it eventually becomes false, and
\* it is false once no request is in flight, no effect is pending and no
\* dispatched action awaits its render.
C18_LoadingEnds ==
  /\ state.loading ~> ~state.loading
  /\ [](Quiescent => ~state.loading)

\* mounted without a token, the SET_LOADING(false) of the bootstrap effect has
\* been applied and the store is at rest
C18_Witness ==
  /\ mountToken = Null
  /\ mountEffect = "setLoading"
  /\ applied
  /\ Quiescent
  /\ ~state.loading

\* C19: the bootstrap effect does not loop. The effects run only after a
\* commit that changed state.token; they issue exactly one loadUser request
\* when the token is present and dispatch exactly one SET_LOADING(false) when
\* it is absent; a commit of USER_LOADED and SET_LOADING events schedules no
\* effect; loadUser requests come from the effect and from consumer calls
\* only; and the store comes to rest with nothing in flight and no effect
\* pending.
C19_BootstrapDoesNotLoop ==
  /\ [][Commit => (effectsPending' <=> state'.token # state.token)]_vars
  /\ [][(Commit /\ \A i \in 1..Len(queue) :
                     queue[i].type \in {AUTH_ACTIONS.USER_LOADED,
                                        AUTH_ACTIONS.SET_LOADING})
          => ~effectsPending']_vars
  /\ [][RunEffects =>
          IF Truthy(state.token)
          THEN /\ inflight' = inflight (+)
                    SetToBag({Request("loadUser", Bearer(state.token), state.token)})
               /\ queue' = queue
          ELSE /\ queue' = Append(queue, SetLoadingEvent(FALSE))
               /\ inflight' = inflight]_vars
  /\ [][(\E r \in BagToSet(inflight') :
            /\ r.kind = "loadUser"
            /\ CopiesIn(r, inflight') > CopiesIn(r, inflight))
          => (RunEffects \/ loadUser)]_vars
  /\ <>[](inflight = EmptyBag /\ ~effectsPending)

\* mounted without a token, logged in, and at rest: the loadUser that the
\* token change caused has been answered and its event applied
C19_Witness ==
  /\ mountToken = Null
  /\ Truthy(state.token)
  /\ state.isAuthenticated
  /\ Quiescent

====
